---- MODULE Spec2Model ----
(***************************************************************************)
(* Karaoke room server of hamtube: the room registry, the KaraokeRoom      *)
(* state machine (song queue, readiness barrier, singer removal) and the   *)
(* socket events that drive it.                                            *)
(*                                                                         *)
(* A room is a record of the fields set by the KaraokeRoom constructor.    *)
(* Every method of the class is an operator from a handler context         *)
(*   [room, sent, cycles]                                                  *)
(* to a handler context: `room` is the room object, `sent` the messages    *)
(* emitted so far by the running handler, in order, and `cycles` the room  *)
(* as it was right after each cycleSongs call of the running handler.      *)
(* An action runs one event handler to completion.                         *)
(***************************************************************************)
EXTENDS Integers, Sequences, FiniteSets, TLC

VARIABLES
  karaokeRooms,   \* registry: room id -> room object              (socket.js:11)
  connected,      \* live sockets, in connection order: [id, room]
  connections,    \* number of sockets that ever connected (ids are never reused)
  sent,           \* messages emitted by the last handler, in order
  afterCycle,     \* the room right after each cycleSongs call of the last handler
  event,          \* the event the last handler served
  history,        \* per room: songs enqueued, songs that became nowPlaying,
                  \* "Now playing" notices for the current nowPlaying
  introduced,     \* peer messages delivered so far among the live sockets
  client          \* one browser client: displayed messages and pending timers

vars == <<karaokeRooms, connected, connections, sent, afterCycle, event, history,
          introduced, client>>

----------------------------------------------------------------------------
(* Bounds *)

MaxSockets == 3
MaxSongs == 3
MaxNotices == 2
MaxRoomsSockets == 2    \* sockets that ever connect when two rooms are served
MaxRoomsSongs == 2      \* songs submitted, all rooms together, when two rooms are served
MaxArrivals == 3        \* messages one client receives

Titles == {"a"}
RoomIds == {"X"}

\* Two rooms and a connection whose handshake query names no room
TwoRooms == {"X", "Y"}
QueryRooms == TwoRooms \cup {""}
Signals == {"offer", "answer"}
Texts == {"a", "b"}     \* data.message texts a client receives

----------------------------------------------------------------------------
(* Values *)

Null == "null"

PLAYER_STATES == [UNSTARTED |-> "UNSTARTED", PLAYING |-> "PLAYING", ENDED |-> "ENDED"]

SocketId(n) == ToString(n)

Range(s) == {s[i] : i \in 1..Len(s)}

Min(a, b) == IF a < b THEN a ELSE b

\* The constructor's requiredProps check on id: a falsy id throws.
\* (io is the server's own handle and is always given.)
HasRequiredProps(id) == id # ""

KaraokeRoom(id) ==
  [ id              |-> id,
    songQueue       |-> <<>>,
    nowPlaying      |-> <<>>,     \* <<>> is null, <<song>> a song
    videoPosition   |-> 0,
    users           |-> <<>>,     \* keys of the users object, in insertion order
    awaitingClients |-> <<>>,
    playerStatus    |-> Null ]

Ctx(room) == [room |-> room, sent |-> <<>>, cycles |-> <<>>]

Emit(c, to, ev, data) ==
  [c EXCEPT !.sent = Append(@, [event |-> ev, to |-> to, data |-> data])]

Emitter(c, socket) == IF socket = Null THEN c.room.id ELSE socket

----------------------------------------------------------------------------
(* KaraokeRoom methods *)

getNumberWithOrdinal(n) ==
  LET v == n % 100
      suffix == IF v \in 11..13 THEN "th"
                ELSE IF v % 10 = 1 THEN "st"
                ELSE IF v % 10 = 2 THEN "nd"
                ELSE IF v % 10 = 3 THEN "rd"
                ELSE "th"
  IN <<n, suffix>>

videoControl(c, code, socket) ==
  Emit(c, Emitter(c, socket), "video-control", code)

notifyRoom(c, message) ==
  Emit(c, c.room.id, "notification", [message |-> message])

sendRoomData(c, data, socket) ==
  Emit(c, Emitter(c, socket), "room-data", data)

roomData(c) ==
  [ currentSong   |-> c.room.nowPlaying,
    currentSinger |-> IF c.room.nowPlaying # <<>>
                      THEN c.room.nowPlaying[1].singerId ELSE Null,
    upNext        |-> SubSeq(c.room.songQueue, 1, Min(1, Len(c.room.songQueue))),
    position      |-> c.room.videoPosition ]

playVideo(c, socket) ==
  videoControl([c EXCEPT !.room.playerStatus = PLAYER_STATES.PLAYING],
               PLAYER_STATES.PLAYING, socket)

stopVideo(c, socket) ==
  videoControl(c, PLAYER_STATES.ENDED, socket)

\* Fault variant: the barrier is not reset to the users.
refreshAwaitingClientsKept(c) == c

refreshAwaitingClients(c) ==
  [c EXCEPT !.room.awaitingClients = c.room.users]

removeUserFromAwaiting(c, socket) ==
  [c EXCEPT !.room.awaitingClients = SelectSeq(@, LAMBDA id : id # socket)]

updateAwaitingClients(c, socket) ==
  LET c1 == removeUserFromAwaiting(c, socket)
  IN IF Len(c1.room.awaitingClients) = 0 /\ c1.room.nowPlaying # <<>>
     THEN playVideo(
            notifyRoom(c1, <<"Now playing: ", c1.room.nowPlaying[1].videoData.title>>),
            Null)
     ELSE c1

\* Fault variant: the queue is served from its tail.
pop(queue) ==
  IF queue = <<>> THEN [item |-> <<>>, rest |-> <<>>]
  ELSE [item |-> <<queue[Len(queue)]>>, rest |-> SubSeq(queue, 1, Len(queue) - 1)]

\* Array.prototype.shift: the removed head (<<>> when the array is empty) and the rest
shift(queue) ==
  IF queue = <<>> THEN [item |-> <<>>, rest |-> <<>>]
  ELSE [item |-> <<Head(queue)>>, rest |-> Tail(queue)]

cycleSongs(c) ==
  LET currentSong == shift(c.room.songQueue).item
      c1 == [c EXCEPT !.room.nowPlaying = currentSong,
                      !.room.songQueue = shift(@).rest,
                      !.room.videoPosition = 0]
      c2 == IF currentSong # <<>>
            THEN notifyRoom(
                   refreshAwaitingClients(
                     [c1 EXCEPT !.room.playerStatus = PLAYER_STATES.UNSTARTED]),
                   <<"Queueing up ", currentSong[1].videoData.title>>)
            ELSE notifyRoom(
                   [c1 EXCEPT !.room.playerStatus = Null,
                              !.room.awaitingClients = <<>>],
                   <<"Song Queue is empty. Add more!">>)
  IN [c2 EXCEPT !.cycles = Append(@, [before |-> c.room, after |-> c2.room])]

\* Fault variant: an idle room does not start the submitted song.
songQueueUpdatedNoCycle(c) ==
  LET c1 == notifyRoom(c, <<"A new song was just added to the queue (",
                            Len(c.room.songQueue), " total)">>)
  IN sendRoomData(c1, roomData(c1), Null)

songQueueUpdated(c) ==
  LET c1 == notifyRoom(c, <<"A new song was just added to the queue (",
                            Len(c.room.songQueue), " total)">>)
  IN IF c1.room.nowPlaying # <<>>
     THEN sendRoomData(c1, roomData(c1), Null)
     ELSE cycleSongs(c1)

\* Fault variant: the confirmation always names a place in line.
addToSongQueueAlwaysOrdinal(c, videoData, userId) ==
  LET c1 == [c EXCEPT !.room.songQueue =
                        Append(@, [singerId |-> userId, videoData |-> videoData])]
      c2 == songQueueUpdated(c1)
      message == <<"Song added. It's ",
                   getNumberWithOrdinal(Len(c2.room.songQueue)), " in line.">>
  IN Emit(c2, userId, "song-added-success", [message |-> message])

\* The message is kept in parts, <<text, ordinal, text>>; the emoji that ends
\* the source text is left out.
addToSongQueue(c, videoData, userId) ==
  LET c1 == [c EXCEPT !.room.songQueue =
                        Append(@, [singerId |-> userId, videoData |-> videoData])]
      c2 == songQueueUpdated(c1)
      message == IF Len(c2.room.songQueue) = 0
                 THEN <<"Song added. Get ready to sing!">>
                 ELSE <<"Song added. It's ",
                        getNumberWithOrdinal(Len(c2.room.songQueue)), " in line.">>
  IN Emit(c2, userId, "song-added-success", [message |-> message])

\* Fault variant: every joining socket is put on the barrier.
addUserAlwaysAwaits(c, socket) ==
  LET c1 == [c EXCEPT !.room.users =
                        IF socket \in Range(@) THEN @ ELSE Append(@, socket)]
      c2 == sendRoomData(c1, roomData(c1), socket)
  IN [c2 EXCEPT !.room.awaitingClients = Append(@, socket)]

\* Fault variant: a joining socket is never put on the barrier.
addUserNeverAwaits(c, socket) ==
  LET c1 == [c EXCEPT !.room.users =
                        IF socket \in Range(@) THEN @ ELSE Append(@, socket)]
  IN sendRoomData(c1, roomData(c1), socket)

addUser(c, socket) ==
  LET c1 == [c EXCEPT !.room.users =
                        IF socket \in Range(@) THEN @ ELSE Append(@, socket)]
      c2 == sendRoomData(c1, roomData(c1), socket)
  IN IF Len(c2.room.awaitingClients) > 0
     THEN [c2 EXCEPT !.room.awaitingClients = Append(@, socket)]
     ELSE c2

\* Fault variant: the singer's song is skipped without the stop directive.
removeUserNoStop(c, socket) ==
  LET c1 == updateAwaitingClients(c, socket)
      c2 == IF c1.room.nowPlaying # <<>> /\ c1.room.nowPlaying[1].singerId = socket
            THEN cycleSongs(c1)
            ELSE c1
  IN [c2 EXCEPT !.room.users = SelectSeq(@, LAMBDA id : id # socket)]

removeUser(c, socket) ==
  LET c1 == updateAwaitingClients(c, socket)
      c2 == IF c1.room.nowPlaying # <<>> /\ c1.room.nowPlaying[1].singerId = socket
            THEN cycleSongs(stopVideo(c1, Null))
            ELSE c1
  IN [c2 EXCEPT !.room.users = SelectSeq(@, LAMBDA id : id # socket)]

----------------------------------------------------------------------------
(* socket.js *)

initializeRoomFresh(rooms, roomId) ==
  IF roomId \in DOMAIN rooms
  THEN rooms
  ELSE [r \in DOMAIN rooms \cup {roomId} |-> KaraokeRoom(r)]

initializeRoomAlwaysNew(rooms, roomId) ==
  [r \in DOMAIN rooms \cup {roomId} |->
     IF r = roomId THEN KaraokeRoom(roomId) ELSE rooms[r]]

initializeRoom(rooms, roomId) ==
  IF roomId \in DOMAIN rooms
  THEN rooms
  ELSE [r \in DOMAIN rooms \cup {roomId} |->
          IF r = roomId THEN KaraokeRoom(roomId) ELSE rooms[r]]

connectedSocketIds(roomId, socket) ==
  LET inRoom == SelectSeq(connected, LAMBDA s : s.room = roomId /\ s.id # socket)
  IN [i \in 1..Len(inRoom) |-> inRoom[i].id]

RECURSIVE advertisePeersBothInitiate(_, _, _)
advertisePeersBothInitiate(c, socket, ids) ==
  IF ids = <<>> THEN c
  ELSE LET socket2 == Head(ids)
           c1 == Emit(c, socket2, "peer", [peerId |-> socket, initiator |-> TRUE])
           c2 == Emit(c1, socket, "peer", [peerId |-> socket2, initiator |-> TRUE])
       IN advertisePeersBothInitiate(c2, socket, Tail(ids))

RECURSIVE advertisePeers(_, _, _)
advertisePeers(c, socket, ids) ==
  IF ids = <<>> THEN c
  ELSE LET socket2 == Head(ids)
           c1 == Emit(c, socket2, "peer", [peerId |-> socket, initiator |-> TRUE])
           c2 == Emit(c1, socket, "peer", [peerId |-> socket2, initiator |-> FALSE])
       IN advertisePeers(c2, socket, Tail(ids))

onDisconnect(c, socket) ==
  Emit(c, c.room.id, "destroy", socket)

\* Fault variant: the relay echoes the peer id the sender supplied.
onSignalEcho(c, socket, data) ==
  IF \A i \in 1..Len(connected) : connected[i].id # data.peerId
  THEN c
  ELSE Emit(c, data.peerId, "signal", [signal |-> data.signal, peerId |-> data.peerId])

onSignal(c, socket, data) ==
  IF \A i \in 1..Len(connected) : connected[i].id # data.peerId
  THEN c
  ELSE Emit(c, data.peerId, "signal", [signal |-> data.signal, peerId |-> socket])

RoomOf(socket) ==
  LET s == SelectSeq(connected, LAMBDA x : x.id = socket) IN s[1].room

ConnectedIds == {connected[i].id : i \in 1..Len(connected)}

\* Live sockets whose connection handler ran to its end: the room's and the
\* relay's listeners are registered on these only.
Members ==
  {connected[i].id : i \in {j \in 1..Len(connected) :
                              connected[j].room \in DOMAIN karaokeRooms}}

----------------------------------------------------------------------------
(* History kept for the properties *)

NoHistory == [enqueued |-> <<>>, played |-> <<>>, notices |-> 0]

RECURSIVE CountNotices(_, _)
CountNotices(n, msgs) ==
  IF msgs = <<>> THEN n
  ELSE LET m == Head(msgs)
           k == IF m.event # "notification" THEN n
                ELSE IF m.data.message[1] = "Now playing: " THEN Min(n + 1, MaxNotices)
                ELSE IF m.data.message[1] \in {"Queueing up ", "Song Queue is empty. Add more!"}
                     THEN 0
                ELSE n
       IN CountNotices(k, Tail(msgs))

Record(h, c, songs) ==
  LET d == SelectSeq(c.cycles, LAMBDA o : o.after.nowPlaying # <<>>)
  IN [ enqueued |-> h.enqueued \o songs,
       played   |-> h.played \o [i \in 1..Len(d) |-> d[i].after.nowPlaying[1]],
       notices  |-> CountNotices(h.notices, c.sent) ]

HistoryOf(roomId) ==
  IF roomId \in DOMAIN history THEN history[roomId] ELSE NoHistory

Introductions(intro, msgs, ev) ==
  LET kept == IF ev.name \in {"disconnect", "drop"}
              THEN SelectSeq(intro, LAMBDA p : p.to # ev.socket /\ p.peerId # ev.socket)
              ELSE intro
      peers == SelectSeq(msgs, LAMBDA m : m.event = "peer")
  IN kept \o [i \in 1..Len(peers) |->
                [to |-> peers[i].to, peerId |-> peers[i].data.peerId,
                 initiator |-> peers[i].data.initiator]]

Commit(rooms, roomId, c, ev, songs) ==
  /\ karaokeRooms' = [rooms EXCEPT ![roomId] = c.room]
  /\ introduced' = Introductions(introduced, c.sent, ev)
  /\ UNCHANGED client
  /\ history' = [r \in DOMAIN rooms |->
                   IF r = roomId THEN Record(HistoryOf(roomId), c, songs)
                   ELSE history[r]]
  /\ sent' = c.sent
  /\ afterCycle' = c.cycles
  /\ event' = ev

Event(name, roomId, socket, videoData) ==
  [name |-> name, room |-> roomId, socket |-> socket, videoData |-> videoData]

----------------------------------------------------------------------------
(* attachClientSocket.js: the component state the message handlers touch *)

\* A displayed message is <<>> (null) or <<m>>, m = [message, arrival]; the
\* arrival number tells two arrivals of the same text apart.  A pending timer
\* holds the message it was scheduled for; timers of one delay fire in the
\* order they were set.
Component ==
  [ notification          |-> <<>>,
    songInputNotification |-> <<>>,
    notificationTimers    |-> <<>>,
    songInputTimers       |-> <<>>,
    arrivals              |-> 0 ]

----------------------------------------------------------------------------
(* Event handlers *)

Init ==
  /\ karaokeRooms = [r \in {} |-> KaraokeRoom(r)]
  /\ history = [r \in {} |-> NoHistory]
  /\ connected = <<>>
  /\ connections = 0
  /\ sent = <<>>
  /\ afterCycle = <<>>
  /\ event = Event("init", Null, Null, Null)
  /\ introduced = <<>>
  /\ client = Component

Connection(roomId) ==
  /\ connections < MaxSockets
  /\ roomId \in DOMAIN karaokeRooms \/ HasRequiredProps(roomId)
  /\ LET socket == SocketId(connections + 1)
         rooms == initializeRoom(karaokeRooms, roomId)
         c1 == addUser(Ctx(rooms[roomId]), socket)
         c2 == advertisePeers(c1, socket, connectedSocketIds(roomId, socket))
     IN /\ Commit(rooms, roomId, c2, Event("connection", roomId, socket, Null), <<>>)
        /\ connected' = Append(connected, [id |-> socket, room |-> roomId])
        /\ connections' = connections + 1

Disconnect(socket) ==
  /\ socket \in Members
  /\ LET roomId == RoomOf(socket)
         c1 == removeUser(Ctx(karaokeRooms[roomId]), socket)
         c2 == onDisconnect(c1, socket)
     IN /\ Commit(karaokeRooms, roomId, c2, Event("disconnect", roomId, socket, Null), <<>>)
        /\ connected' = SelectSeq(connected, LAMBDA s : s.id # socket)
        /\ UNCHANGED connections

ClientReady(socket) ==
  /\ socket \in Members
  /\ LET roomId == RoomOf(socket)
         c1 == updateAwaitingClients(Ctx(karaokeRooms[roomId]), socket)
     IN /\ Commit(karaokeRooms, roomId, c1, Event("client-ready", roomId, socket, Null), <<>>)
        /\ UNCHANGED <<connected, connections>>

SubmitSong(socket, videoData) ==
  /\ socket \in Members
  /\ LET roomId == RoomOf(socket)
         c1 == addToSongQueue(Ctx(karaokeRooms[roomId]), videoData, socket)
     IN /\ Len(history[roomId].enqueued) < MaxSongs
        /\ Commit(karaokeRooms, roomId, c1,
                  Event("submit-song", roomId, socket, videoData),
                  <<[singerId |-> socket, videoData |-> videoData]>>)
        /\ UNCHANGED <<connected, connections>>

CycleSongs(roomId) ==
  /\ roomId \in DOMAIN karaokeRooms
  /\ LET c1 == cycleSongs(Ctx(karaokeRooms[roomId]))
     IN /\ Commit(karaokeRooms, roomId, c1, Event("cycleSongs", roomId, Null, Null), <<>>)
        /\ UNCHANGED <<connected, connections>>

PlayVideo(roomId, socket) ==
  /\ roomId \in DOMAIN karaokeRooms
  /\ socket \in {Null} \cup Range(karaokeRooms[roomId].users)
  /\ LET c1 == playVideo(Ctx(karaokeRooms[roomId]), socket)
     IN /\ Commit(karaokeRooms, roomId, c1, Event("playVideo", roomId, socket, Null), <<>>)
        /\ UNCHANGED <<connected, connections>>

StopVideo(roomId, socket) ==
  /\ roomId \in DOMAIN karaokeRooms
  /\ socket \in {Null} \cup Range(karaokeRooms[roomId].users)
  /\ LET c1 == stopVideo(Ctx(karaokeRooms[roomId]), socket)
     IN /\ Commit(karaokeRooms, roomId, c1, Event("stopVideo", roomId, socket, Null), <<>>)
        /\ UNCHANGED <<connected, connections>>

\* onConnection for a room id the registry does not hold and the constructor
\* rejects: initializeRoom throws before the room is stored, the user added or
\* any listener registered.  The socket itself stays live.
ConnectionError(roomId) ==
  /\ connections < MaxSockets
  /\ roomId \notin DOMAIN karaokeRooms /\ ~HasRequiredProps(roomId)
  /\ connected' = Append(connected, [id |-> SocketId(connections + 1), room |-> roomId])
  /\ connections' = connections + 1
  /\ sent' = <<>>
  /\ afterCycle' = <<>>
  /\ event' = Event("connection-error", roomId, SocketId(connections + 1), Null)
  /\ UNCHANGED <<karaokeRooms, history, introduced, client>>

\* The transport closes a live socket that has no listeners.
Drop(socket) ==
  /\ socket \in ConnectedIds \ Members
  /\ connected' = SelectSeq(connected, LAMBDA s : s.id # socket)
  /\ sent' = <<>>
  /\ afterCycle' = <<>>
  /\ event' = Event("drop", RoomOf(socket), socket, Null)
  /\ introduced' = Introductions(introduced, <<>>, Event("drop", RoomOf(socket), socket, Null))
  /\ UNCHANGED <<karaokeRooms, history, connections, client>>

Signal(socket, data) ==
  /\ socket \in Members
  /\ LET roomId == RoomOf(socket)
         c1 == onSignal(Ctx(karaokeRooms[roomId]), socket, data)
     IN /\ Commit(karaokeRooms, roomId, c1,
                  [name |-> "signal", room |-> roomId, socket |-> socket,
                   videoData |-> Null, data |-> data], <<>>)
        /\ UNCHANGED <<connected, connections>>

\* removeUser for a socket that is not (or no longer) a user of the room: a
\* disconnect notified twice.
RemoveUser(roomId, socket) ==
  /\ roomId \in DOMAIN karaokeRooms
  /\ socket \notin Range(karaokeRooms[roomId].users)
  /\ LET c1 == removeUser(Ctx(karaokeRooms[roomId]), socket)
     IN /\ Commit(karaokeRooms, roomId, c1, Event("removeUser", roomId, socket, Null), <<>>)
        /\ UNCHANGED <<connected, connections>>

ClientEvent(name, message) ==
  [name |-> name, room |-> Null, socket |-> Null, videoData |-> Null,
   message |-> message]

ClientStep(component, ev) ==
  /\ client' = component
  /\ event' = ev
  /\ sent' = <<>>
  /\ afterCycle' = <<>>
  /\ UNCHANGED <<karaokeRooms, connected, connections, history, introduced>>

\* socket.on("notification"): show the message and set a 5000 ms timer for it.
Notification(message) ==
  /\ client.arrivals < MaxArrivals
  /\ LET m == [message |-> message, arrival |-> client.arrivals + 1]
     IN ClientStep([client EXCEPT !.notification = <<m>>,
                                  !.notificationTimers = Append(@, m),
                                  !.arrivals = @ + 1],
                   ClientEvent("notification", message))

\* The 5000 ms timer set first fires: it clears the notification when the
\* text on display is strictly equal to the text it was set for.
NotificationTimeout ==
  /\ client.notificationTimers # <<>>
  /\ LET m == Head(client.notificationTimers)
     IN ClientStep([client EXCEPT
                      !.notification =
                        IF @ # <<>> /\ @[1].message = m.message THEN <<>> ELSE @,
                      !.notificationTimers = Tail(@)],
                   ClientEvent("notification-timeout", m.message))

\* socket.on("song-added-success"): show the message and set a 3000 ms timer.
SongAddedSuccess(message) ==
  /\ client.arrivals < MaxArrivals
  /\ LET m == [message |-> message, arrival |-> client.arrivals + 1]
     IN ClientStep([client EXCEPT !.songInputNotification = <<m>>,
                                  !.songInputTimers = Append(@, m),
                                  !.arrivals = @ + 1],
                   ClientEvent("song-added-success", message))

\* The 3000 ms timer set first fires: it clears the song input notification.
SongAddedTimeout ==
  /\ client.songInputTimers # <<>>
  /\ LET m == Head(client.songInputTimers)
     IN ClientStep([client EXCEPT !.songInputNotification = <<>>,
                                  !.songInputTimers = Tail(@)],
                   ClientEvent("song-added-timeout", m.message))

Sockets == {SocketId(n) : n \in 1..MaxSockets}

VideoData == {[title |-> t] : t \in Titles}

Next ==
  \/ \E roomId \in RoomIds : Connection(roomId)
  \/ \E socket \in Sockets : Disconnect(socket)
  \/ \E socket \in Sockets : ClientReady(socket)
  \/ \E socket \in Sockets, videoData \in VideoData : SubmitSong(socket, videoData)
  \/ \E roomId \in RoomIds : CycleSongs(roomId)

Spec == Init /\ [][Next]_vars

NextApi ==
  \/ Next
  \/ \E roomId \in RoomIds, socket \in Sockets \cup {Null} : PlayVideo(roomId, socket)
  \/ \E roomId \in RoomIds, socket \in Sockets \cup {Null} : StopVideo(roomId, socket)

SpecApi == Init /\ [][NextApi]_vars

RECURSIVE Submitted(_)
Submitted(rooms) ==
  IF rooms = {} THEN 0
  ELSE LET r == CHOOSE x \in rooms : TRUE
       IN Len(history[r].enqueued) + Submitted(rooms \ {r})

RoomsSockets == {SocketId(n) : n \in 1..MaxRoomsSockets}

NextRooms ==
  \/ \E roomId \in QueryRooms :
        connections < MaxRoomsSockets /\ Connection(roomId)
  \/ \E roomId \in QueryRooms :
        connections < MaxRoomsSockets /\ ConnectionError(roomId)
  \/ \E socket \in RoomsSockets : Disconnect(socket)
  \/ \E socket \in RoomsSockets : Drop(socket)
  \/ \E socket \in RoomsSockets : ClientReady(socket)
  \/ \E socket \in RoomsSockets, videoData \in VideoData :
        Submitted(DOMAIN history) < MaxRoomsSongs /\ SubmitSong(socket, videoData)
  \/ \E roomId \in TwoRooms : CycleSongs(roomId)

SpecRooms == Init /\ [][NextRooms]_vars

SignalData == [signal : Signals, peerId : Sockets]

NextSignal ==
  \/ \E roomId \in QueryRooms : Connection(roomId)
  \/ \E roomId \in QueryRooms : ConnectionError(roomId)
  \/ \E socket \in Sockets : Disconnect(socket)
  \/ \E socket \in Sockets : Drop(socket)
  \/ \E socket \in Sockets, data \in SignalData : Signal(socket, data)

SpecSignal == Init /\ [][NextSignal]_vars

NextClient ==
  \/ \E message \in Texts : Notification(message)
  \/ NotificationTimeout
  \/ \E message \in Texts : SongAddedSuccess(message)
  \/ SongAddedTimeout

SpecClient == Init /\ [][NextClient]_vars

NextDup ==
  \/ Next
  \/ \E roomId \in RoomIds, socket \in Sockets : RemoveUser(roomId, socket)

SpecDup == Init /\ [][NextDup]_vars

----------------------------------------------------------------------------
(* Properties *)

RoomBefore(roomId) ==
  IF roomId \in DOMAIN karaokeRooms THEN karaokeRooms[roomId] ELSE KaraokeRoom(roomId)

Sent(msgs, ev, to) ==
  {i \in 1..Len(msgs) : msgs[i].event = ev /\ msgs[i].to = to}

\* C1: in every reachable state of a room, every session id in awaitingClients
\* is a key of users.
C1_AwaitingSubsetOfUsers ==
  \A r \in DOMAIN karaokeRooms :
    Range(karaokeRooms[r].awaitingClients) \subseteq Range(karaokeRooms[r].users)

\* C2: removing the session that is the singer of nowPlaying, whatever the
\* player status and the barrier, sends video-control ENDED to the room and
\* advances the queue: nowPlaying becomes the former head of songQueue with
\* playerStatus UNSTARTED, or is absent with playerStatus null when songQueue
\* was empty.
C2_SingerRemovalStopsAndAdvances ==
  [][ LET r == event'.room
          pre == karaokeRooms[r]
          post == karaokeRooms'[r]
      IN (/\ event'.name = "disconnect"
          /\ pre.nowPlaying # <<>>
          /\ pre.nowPlaying[1].singerId = event'.socket)
         => /\ \E i \in Sent(sent', "video-control", r) :
                 sent'[i].data = PLAYER_STATES.ENDED
            /\ IF pre.songQueue # <<>>
               THEN /\ post.nowPlaying = <<Head(pre.songQueue)>>
                    /\ post.songQueue = Tail(pre.songQueue)
                    /\ post.playerStatus = PLAYER_STATES.UNSTARTED
               ELSE /\ post.nowPlaying = <<>>
                    /\ post.playerStatus = Null ]_vars

C2_Witness ==
  /\ event.name = "disconnect"
  /\ afterCycle # <<>>
  /\ afterCycle[1].before.playerStatus = PLAYER_STATES.UNSTARTED
  /\ Len(afterCycle[1].before.awaitingClients) >= 1
  /\ karaokeRooms[event.room].nowPlaying # <<>>
  /\ Sent(sent, "video-control", event.room) # {}

\* C3: a song that is nowPlaying gets at most one "Now playing" broadcast
\* (with its PLAYING directive), whatever events follow the draining of the
\* barrier.
C3_OneNowPlayingPerSong ==
  \A r \in DOMAIN history : history[r].notices <= 1

\* C4: right after cycleSongs dequeued a song, awaitingClients is exactly the
\* ids in users, playerStatus is UNSTARTED and videoPosition is 0; right after
\* cycleSongs found songQueue empty, nowPlaying is absent, playerStatus is null
\* and awaitingClients is empty.
C4_CycleSongsResetsBarrier ==
  \A i \in 1..Len(afterCycle) :
    LET before == afterCycle[i].before
        after == afterCycle[i].after
    IN IF before.songQueue # <<>>
       THEN /\ after.nowPlaying = <<Head(before.songQueue)>>
            /\ Range(after.awaitingClients) = Range(after.users)
            /\ Len(after.awaitingClients) = Len(after.users)
            /\ after.playerStatus = PLAYER_STATES.UNSTARTED
            /\ after.videoPosition = 0
       ELSE /\ after.nowPlaying = <<>>
            /\ after.playerStatus = Null
            /\ after.awaitingClients = <<>>

C4_Witness ==
  /\ afterCycle # <<>>
  /\ afterCycle[1].before.songQueue # <<>>
  /\ Len(afterCycle[1].after.users) >= 2
  /\ afterCycle[1].before.awaitingClients # afterCycle[1].after.awaitingClients

C6_NowPlayingIffStatus ==
  \A r \in DOMAIN karaokeRooms :
    /\ (karaokeRooms[r].nowPlaying = <<>>) <=> (karaokeRooms[r].playerStatus = Null)
    /\ karaokeRooms[r].playerStatus # PLAYER_STATES.ENDED

\* C7: once removeUser(s) has returned, s is neither in users nor in
\* awaitingClients.
C7_RemovedUserIsGone ==
  event.name = "disconnect"
    => /\ event.socket \notin Range(karaokeRooms[event.room].users)
       /\ event.socket \notin Range(karaokeRooms[event.room].awaitingClients)

\* C8: an enqueueSong on a room with no song playing and an empty barrier
\* runs cycleSongs at once, so that nowPlaying is the enqueued song and
\* songQueue is empty; an enqueueSong while a song is nowPlaying leaves
\* nowPlaying unchanged and appends the song to songQueue.
C8_FirstEnqueuePlaysLaterAppend ==
  [][ event'.name = "submit-song" =>
        LET pre == karaokeRooms[event'.room]
            post == karaokeRooms'[event'.room]
            song == [singerId |-> event'.socket, videoData |-> event'.videoData]
        IN /\ (pre.nowPlaying = <<>> /\ pre.awaitingClients = <<>>)
                => /\ Len(afterCycle') = 1
                   /\ post.nowPlaying = <<song>>
                   /\ post.songQueue = <<>>
           /\ pre.nowPlaying # <<>>
                => /\ afterCycle' = <<>>
                   /\ post.nowPlaying = pre.nowPlaying
                   /\ post.songQueue = Append(pre.songQueue, song) ]_vars

C8_Witness ==
  /\ event.name = "submit-song"
  /\ Len(history[event.room].enqueued) >= 2
  /\ Len(history[event.room].played) = 1
  /\ karaokeRooms[event.room].nowPlaying = <<history[event.room].enqueued[1]>>
  /\ karaokeRooms[event.room].songQueue = Tail(history[event.room].enqueued)

\* C9: every step leaves songQueue unchanged, appends one song at its tail or
\* removes its head; the songs that became nowPlaying followed by songQueue are
\* the songs enqueued, in the order they were enqueued, and a present
\* nowPlaying is the last song that was dequeued.
C9_QueueIsFifo ==
  /\ [](\A r \in DOMAIN karaokeRooms :
          /\ history[r].played \o karaokeRooms[r].songQueue = history[r].enqueued
          /\ karaokeRooms[r].nowPlaying # <<>>
               => /\ history[r].played # <<>>
                  /\ karaokeRooms[r].nowPlaying[1]
                       = history[r].played[Len(history[r].played)])
  /\ [][ \A r \in DOMAIN karaokeRooms :
           LET q == karaokeRooms[r].songQueue
               q2 == karaokeRooms'[r].songQueue
           IN \/ q2 = q
              \/ Len(q2) = Len(q) + 1 /\ SubSeq(q2, 1, Len(q)) = q
              \/ q # <<>> /\ q2 = Tail(q) ]_vars

C9_Witness ==
  \E r \in DOMAIN karaokeRooms :
    /\ Len(history[r].played) >= 2
    /\ Len(karaokeRooms[r].songQueue) >= 1
    /\ afterCycle # <<>>
    /\ Len(afterCycle[1].before.songQueue) >= 2

\* C10: addUser(s) on a room with a non-empty awaitingClients appends s to it;
\* on a room with an empty awaitingClients it leaves it empty, whatever the
\* player status; either way s is in users afterwards and was sent exactly one
\* room snapshot.
C10_JoinAndBarrier ==
  [][ event'.name = "connection" =>
        LET pre == RoomBefore(event'.room)
            post == karaokeRooms'[event'.room]
            s == event'.socket
        IN /\ pre.awaitingClients # <<>>
                => post.awaitingClients = Append(pre.awaitingClients, s)
           /\ pre.awaitingClients = <<>> => post.awaitingClients = <<>>
           /\ s \in Range(post.users)
           /\ Cardinality(Sent(sent', "room-data", s)) = 1
           /\ Sent(sent', "room-data", event'.room) = {} ]_vars

C10_Witness ==
  /\ event.name = "connection"
  /\ Len(karaokeRooms[event.room].awaitingClients) >= 2
  /\ event.socket \in Range(karaokeRooms[event.room].awaitingClients)
  /\ Cardinality(Sent(sent, "room-data", event.socket)) = 1

\* C11: removeUser of a session that is neither in users nor in
\* awaitingClients changes no field of the room and emits no notification and
\* no video-control message, whatever the room's state.
C11_RemovingNonMemberIsNoOp ==
  [][ LET r == event'.room
          s == event'.socket
      IN (/\ event'.name = "removeUser"
          /\ s \notin Range(karaokeRooms[r].users)
          /\ s \notin Range(karaokeRooms[r].awaitingClients))
         => /\ karaokeRooms'[r] = karaokeRooms[r]
            /\ Sent(sent', "notification", r) = {}
            /\ Sent(sent', "video-control", r) = {} ]_vars

\* Sockets a message addressed to `to` reaches: the sockets that joined the
\* socket.io room `to` (addUser joins the room named by the room id), or the
\* socket whose own id is `to`.
Recipients(conn, to) ==
  {conn[i].id : i \in {j \in 1..Len(conn) :
                         \/ conn[j].id = to
                         \/ conn[j].room = to /\ to \in DOMAIN karaokeRooms'}}

SessionsOf(conn, roomId) ==
  {conn[i].id : i \in {j \in 1..Len(conn) : conn[j].room = roomId}}

\* C12: a step that runs an operation on one room leaves every other room's
\* record (songQueue, nowPlaying, playerStatus, awaitingClients, users) and
\* snapshot unchanged, and none of the room-data, notification or
\* video-control messages it sends reaches a session of another room.
C12_RoomsShareNothing ==
  [][ \A y \in DOMAIN karaokeRooms :
        y # event'.room =>
          /\ karaokeRooms'[y] = karaokeRooms[y]
          /\ roomData(Ctx(karaokeRooms'[y])) = roomData(Ctx(karaokeRooms[y]))
          /\ \A i \in 1..Len(sent') :
               sent'[i].event \in {"room-data", "notification", "video-control"}
                 => Recipients(connected, sent'[i].to)
                      \cap SessionsOf(connected, y) = {} ]_vars

\* A song is submitted in room X while room Y has a session and a song playing.
C12_Witness ==
  /\ event.name = "submit-song" /\ event.room = "X"
  /\ "Y" \in DOMAIN karaokeRooms
  /\ karaokeRooms["Y"].nowPlaying # <<>>
  /\ SessionsOf(connected, "Y") # {}
  /\ Sent(sent, "notification", "X") # {}

C13_WitnessNoPeer ==
  /\ event.name = "signal"
  /\ event.data.peerId \notin ConnectedIds
  /\ sent = <<>>

PeerMessages(msgs, to, peerId, initiator) ==
  {i \in 1..Len(msgs) :
     /\ msgs[i].event = "peer"
     /\ msgs[i].to = to
     /\ msgs[i].data = [peerId |-> peerId, initiator |-> initiator]}

\* Every two distinct live sessions of one room have been introduced to each
\* other exactly once, exactly one of the two as initiator.
IntroducedOnce ==
  \A a \in ConnectedIds, b \in ConnectedIds :
    (a # b /\ RoomOf(a) = RoomOf(b) /\ RoomOf(a) \in DOMAIN karaokeRooms) =>
      LET ab == {i \in 1..Len(introduced) :
                   introduced[i].to = a /\ introduced[i].peerId = b}
          ba == {i \in 1..Len(introduced) :
                   introduced[i].to = b /\ introduced[i].peerId = a}
      IN /\ Cardinality(ab) = 1
         /\ Cardinality(ba) = 1
         /\ \A i \in ab, j \in ba : introduced[i].initiator # introduced[j].initiator

\* The join of session N into a room with the sessions `existing` sends
\* exactly two peer messages per existing session S: one to N naming S and
\* one to S naming N; nFlag is the initiator flag of the message N receives,
\* sFlag that of the message S receives.
JoinIntroduces(nFlag, sFlag) ==
  event'.name = "connection" =>
    LET N == event'.socket
        existing == SessionsOf(connected, event'.room)
        peers == {i \in 1..Len(sent') : sent'[i].event = "peer"}
    IN /\ Cardinality(peers) = 2 * Cardinality(existing)
       /\ \A S \in existing :
            /\ Cardinality(PeerMessages(sent', N, S, nFlag)) = 1
            /\ Cardinality(PeerMessages(sent', S, N, sFlag)) = 1
       /\ \A i \in peers : sent'[i].to # sent'[i].data.peerId

\* C14 (as stated): on a join into a room with k sessions, 2k peer messages
\* are sent; the new session N receives one per existing session S marked
\* initiator=true and S receives one naming N marked initiator=false; nobody
\* is introduced to itself and every pair is introduced exactly once.
C14_NewSessionInitiates ==
  [][ JoinIntroduces(TRUE, FALSE) /\ IntroducedOnce' ]_vars

\* C14 (amended): as above, but the existing session S receives the message
\* marked initiator=true and the new session N the one marked initiator=false.
C14_ExistingSessionInitiates ==
  [][ JoinIntroduces(FALSE, TRUE) /\ IntroducedOnce' ]_vars

\* A third session joined a room that had two.
C14_Witness ==
  /\ event.name = "connection"
  /\ Cardinality({i \in 1..Len(sent) : sent[i].event = "peer"}) = 4
  /\ Cardinality(SessionsOf(connected, event.room)) = 3

\* What a connection to room id r by socket N does to the registry: the first
\* reference stores a new empty room (to which N is then added), a later one
\* finds the stored room with its state intact (N is added to it); and no step
\* removes a room id from the registry.
RoomReference ==
  /\ DOMAIN karaokeRooms \subseteq DOMAIN karaokeRooms'
  /\ event'.name = "connection" =>
       LET r == event'.room
           N == event'.socket
       IN /\ r \in DOMAIN karaokeRooms'
          /\ DOMAIN karaokeRooms' = DOMAIN karaokeRooms \cup {r}
          /\ IF r \notin DOMAIN karaokeRooms
             THEN karaokeRooms'[r] =
                    [ id |-> r, songQueue |-> <<>>, nowPlaying |-> <<>>,
                      videoPosition |-> 0, users |-> <<N>>,
                      awaitingClients |-> <<>>, playerStatus |-> Null ]
             ELSE karaokeRooms'[r] =
                    [karaokeRooms[r] EXCEPT
                       !.users = Append(@, N),
                       !.awaitingClients = IF @ # <<>> THEN Append(@, N) ELSE @]

OneConfirmation ==
  LET conf == {i \in 1..Len(sent') : sent'[i].event = "song-added-success"}
  IN /\ Cardinality(conf) = 1
     /\ \A i \in conf : sent'[i].to = event'.socket

\* The confirmation names place n in line.
ConfirmsPlace(n) ==
  \A i \in 1..Len(sent') :
    sent'[i].event = "song-added-success" =>
      /\ Len(sent'[i].data.message) = 3
      /\ sent'[i].data.message[2][1] = n

\* C16 (as stated): every submission is answered by exactly one
\* song-added-success to the submitter, naming the place n = number of songs
\* queued once the song has been appended, whether or not a song is playing.
C16_ConfirmationNamesPlace ==
  [][ event'.name = "submit-song" =>
        /\ OneConfirmation
        /\ ConfirmsPlace(Len(karaokeRooms[event'.room].songQueue) + 1) ]_vars

\* C16 (amended): every submission is answered by exactly one
\* song-added-success to the submitter; when a song is already playing it
\* names the place n = number of songs queued once the song has been appended,
\* and when no song is playing it is "Song added. Get ready to sing!" and
\* names no place.
C16_ConfirmationNamesPlaceWhenPlaying ==
  [][ event'.name = "submit-song" =>
        /\ OneConfirmation
        /\ IF karaokeRooms[event'.room].nowPlaying # <<>>
           THEN ConfirmsPlace(Len(karaokeRooms[event'.room].songQueue) + 1)
           ELSE \A i \in 1..Len(sent') :
                  sent'[i].event = "song-added-success" =>
                    sent'[i].data.message = <<"Song added. Get ready to sing!">> ]_vars

\* A song was submitted behind one queued song while another was playing and
\* was confirmed as 2nd in line.
C16_Witness ==
  /\ event.name = "submit-song"
  /\ \E i \in 1..Len(sent) :
       /\ sent[i].event = "song-added-success"
       /\ sent[i].data.message = <<"Song added. It's ", <<2, "nd">>, " in line.">>
  /\ Len(karaokeRooms[event.room].songQueue) = 2

\* C17: a join sends the joining session a room-data message with the room's
\* snapshot, and every step that changes a room's snapshot (currentSong,
\* currentSinger, upNext, position) broadcasts a room-data message carrying
\* the new snapshot to the room.
C17_SnapshotFollowsRoom ==
  [][ /\ event'.name = "connection" =>
           \E i \in 1..Len(sent') :
             /\ sent'[i].event = "room-data"
             /\ sent'[i].to = event'.socket
             /\ sent'[i].data = roomData(Ctx(karaokeRooms'[event'.room]))
      /\ \A r \in DOMAIN karaokeRooms' :
           roomData(Ctx(karaokeRooms'[r])) # roomData(Ctx(RoomBefore(r))) =>
             \E i \in 1..Len(sent') :
               /\ sent'[i].event = "room-data"
               /\ sent'[i].to = r
               /\ sent'[i].data = roomData(Ctx(karaokeRooms'[r])) ]_vars

\* If the first timer of `timers` fired in this step and cleared the message
\* `shown`, that message is the arrival the timer was set for.
ClearsOwnMessage(shown, shownAfter, timers, timersAfter) ==
  (Len(timersAfter) < Len(timers) /\ shown # <<>> /\ shownAfter = <<>>)
    => shown[1].arrival = Head(timers).arrival

\* C18: when a notification timer or a song-added-success timer fires and
\* clears the message on display, that message is the one the timer was set
\* for, never one that arrived later.
C18_TimerClearsOnlyItsMessage ==
  [][ /\ ClearsOwnMessage(client.notification, client'.notification,
                          client.notificationTimers, client'.notificationTimers)
      /\ ClearsOwnMessage(client.songInputNotification, client'.songInputNotification,
                          client.songInputTimers, client'.songInputTimers) ]_vars

\* C19: a song that is loaded but not started, with its singer connected, is
\* waiting for at least one session that is still in the room: once every
\* session of the room has reported ready or left, playback has started.
C19_BarrierWaitsOnlyForPresentSessions ==
  \A r \in DOMAIN karaokeRooms :
    LET room == karaokeRooms[r]
    IN (/\ room.nowPlaying # <<>>
        /\ room.playerStatus = PLAYER_STATES.UNSTARTED
        /\ room.nowPlaying[1].singerId \in Range(room.users))
         => Range(room.awaitingClients) \cap Range(room.users) # {}

\* C20: a signal message reaches session T only when the sender F and T are
\* sessions of the same room.
C20_SignalStaysInRoom ==
  [][ event'.name = "signal" =>
        \A i \in 1..Len(sent') :
          sent'[i].event = "signal" =>
            \A T \in Recipients(connected, sent'[i].to) :
              RoomOf(T) = RoomOf(event'.socket) ]_vars

====
